---- MODULE Spec2Model ----
(***************************************************************************)
(* The Vault store of the card evaluator: VaultProvider keeps the entry    *)
(* list in React state, every mutation computes a new list from the        *)
(* `cards` constant of the render it was called from, hands it to          *)
(* setCards and writes it to AsyncStorage under one key.                   *)
(***************************************************************************)
EXTENDS Integers, Sequences, FiniteSets, TLC

\* ---------------------------------------------------------------- bounds
MaxCalls == 1      \* calls of any operation that callers make in one behaviour
MaxBurst == 2      \* addCard calls in one behaviour of callers that only add
MaxClock == 2      \* distinct clock readings (milliseconds) in one behaviour
MaxCards == 6      \* entries of a vault whose statistics are read
DrawSteps == 2     \* equal steps of [0, 1) from which Math.random() draws
MaxAxes == 4       \* axes of a radar chart
MaxFiltered == 3   \* entries of a vault that is searched and filtered


\* ------------------------------------------------------- values and clock
Undefined == "undefined"      \* the JavaScript value undefined
Null      == "null"           \* the JavaScript value null

\* Date.now().toString() and new Date().toISOString() at clock reading n
ClockIds == <<"1700000000001", "1700000000002", "1700000000003", "1700000000004">>
ClockIso == <<"2023-11-14T22:13:20.001Z", "2023-11-14T22:13:20.002Z",
              "2023-11-14T22:13:20.003Z", "2023-11-14T22:13:20.004Z">>
DateNowString(n) == ClockIds[n]
ToISOString(n)   == ClockIso[n]

\* fields whose values are strings (and so may hold undefined or null)
StringFields == {"id", "name", "set", "setNumber", "overallGrade", "marketValue",
                 "photoUri", "scannedAt", "notes", "updatedAt"}

\* obj.f in JavaScript: undefined when the property is missing
Get(obj, f) == IF f \in DOMAIN obj THEN obj[f] ELSE Undefined

\* the fields that hold a value other than undefined
Defined(obj) ==
    {f \in DOMAIN obj : ~(f \in StringFields /\ obj[f] = Undefined)}

\* truthiness of obj.f as the || operator sees it
Truthy(obj, f) ==
    /\ f \in DOMAIN obj
    /\ IF f \in StringFields THEN obj[f] \notin {Undefined, Null, ""}
       ELSE IF f = "confidence" THEN obj[f] # 0
       ELSE TRUE

\* { ...a, ...b }
Spread(a, b) ==
    [f \in (DOMAIN a) \cup (DOMAIN b) |-> IF f \in DOMAIN b THEN b[f] ELSE a[f]]

\* JSON.stringify followed by JSON.parse of one object: properties whose
\* value is undefined are not written
JsonObject(obj) == [f \in Defined(obj) |-> obj[f]]

JsonList(list) == [k \in 1..Len(list) |-> JsonObject(list[k])]

\* ------------------------------------------------------------ persistence
\* the value under VAULT_STORAGE_KEY: no key, the JSON text of a list, or a
\* text that JSON.parse rejects
StorageAbsent    == [kind |-> "absent",  cards |-> <<>>]
StorageJson(l)   == [kind |-> "json",    cards |-> JsonList(l)]
StorageGarbage   == [kind |-> "garbage", cards |-> <<>>]

\* ---------------------------------------------------------------- addCard
DefaultedFields == {"id", "set", "setNumber", "overallGrade", "subgrades",
                    "marketValue", "scannedAt", "confidence", "notes", "tags"}

DefaultOf(f, n) ==
    CASE f = "id"           -> DateNowString(n)
      [] f = "set"          -> "Unknown Set"
      [] f = "setNumber"    -> "Unknown"
      [] f = "overallGrade" -> "N/A"
      [] f = "subgrades"    -> <<>>
      [] f = "marketValue"  -> "N/A"
      [] f = "scannedAt"    -> ToISOString(n)
      [] f = "confidence"   -> 0
      [] f = "notes"        -> ""
      [] f = "tags"         -> <<>>

\* the object literal of addCard without its trailing spread
CardLiteral(cardData, n) ==
    [f \in DefaultedFields \cup {"name", "photoUri"} |->
        IF f \in {"name", "photoUri"} THEN Get(cardData, f)
        ELSE IF Truthy(cardData, f) THEN cardData[f]
        ELSE DefaultOf(f, n)]

BuildCardNoSpread(cardData, n) == CardLiteral(cardData, n)

\* const card = { id: cardData.id || Date.now().toString(), ..., ...cardData }
BuildCard(cardData, n) == Spread(CardLiteral(cardData, n), cardData)

AppendCard(card, list) == list \o <<card>>

\* const newCards = [card, ...cards]
PrependCard(card, list) == <<card>> \o list

\* ------------------------------------------------------------ getCardById
RECURSIVE Find(_, _, _)
Find(list, id, k) ==
    IF k > Len(list) THEN <<>>
    ELSE IF Get(list[k], "id") = id THEN <<list[k]>>
    ELSE Find(list, id, k + 1)

\* cards.find(card => card.id === cardId): <<>> stands for undefined
getCardById(list, cardId) == Find(list, cardId, 1)

\* ------------------------------------------------------------- updateCard
\* { ...updates, ...card, updatedAt }: the entry's own fields win
UpdatedCardKeepOwn(card, updates, n) ==
    Spread(Spread(updates, card), [updatedAt |-> ToISOString(n)])

\* { ...card, ...updates, updatedAt: new Date().toISOString() }
UpdatedCard(card, updates, n) ==
    Spread(Spread(card, updates), [updatedAt |-> ToISOString(n)])

\* every entry is stamped, the matching one is patched as well
UpdateCardsStampAll(list, cardId, updates, n) ==
    [k \in 1..Len(list) |->
        IF Get(list[k], "id") = cardId THEN UpdatedCard(list[k], updates, n)
        ELSE Spread(list[k], [updatedAt |-> ToISOString(n)])]

\* cards.map(card => card.id === cardId ? {...} : card)
UpdateCards(list, cardId, updates, n) ==
    [k \in 1..Len(list) |->
        IF Get(list[k], "id") = cardId THEN UpdatedCard(list[k], updates, n)
        ELSE list[k]]

\* ------------------------------------------------------------- deleteCard
RECURSIVE Filter(_, _, _)
\* the entries of list from position k on whose id is not in ids
Filter(list, ids, k) ==
    IF k > Len(list) THEN <<>>
    ELSE IF Get(list[k], "id") \in ids THEN Filter(list, ids, k + 1)
    ELSE <<list[k]>> \o Filter(list, ids, k + 1)

\* cards.splice(cards.findIndex(...), 1): index -1 removes the last entry
DeleteSplice(list, cardId) ==
    LET hit == {k \in 1..Len(list) : Get(list[k], "id") = cardId}
        first == CHOOSE k \in hit : \A j \in hit : k <= j
    IN  IF hit = {} THEN SubSeq(list, 1, Len(list) - 1)
        ELSE SubSeq(list, 1, first - 1) \o SubSeq(list, first + 1, Len(list))

\* cards.filter(card => card.id !== cardId)
DeleteCards(list, cardId) == Filter(list, {cardId}, 1)

\* ------------------------------------------------- exportVault / importVault
ExportCardKeepPhoto(card) == card

\* { ...card, photoUri: null }
ExportCard(card) == Spread(card, [photoUri |-> Null])

\* the package with the oldest entry first
exportVaultReversed(list, n) ==
    [kind       |-> "json",
     cardsKind  |-> "array",
     exportedAt |-> ToISOString(n),
     version    |-> "1.0",
     totalCards |-> Len(list),
     cards      |-> JsonList([k \in 1..Len(list) |->
                                 ExportCard(list[Len(list) + 1 - k])])]

\* JSON.stringify(exportData, null, 2): the text of the export package
exportVault(list, n) ==
    [kind       |-> "json",
     cardsKind  |-> "array",
     exportedAt |-> ToISOString(n),
     version    |-> "1.0",
     totalCards |-> Len(list),
     cards      |-> JsonList([k \in 1..Len(list) |-> ExportCard(list[k])])]

AcceptAnyImport(jsonData) == jsonData.kind = "json"

\* JSON.parse succeeds, importData.cards is truthy and Array.isArray
ValidImport(jsonData) ==
    jsonData.kind = "json" /\ jsonData.cardsKind = "array"

IdsOf(list) == {Get(list[k], "id") : k \in 1..Len(list)}

MergePrepend(list, imported) == Filter(imported, IdsOf(list), 1) \o list

MergeAll(list, imported) == list \o imported

\* [...cards, ...uniqueImportCards]
MergeCards(list, imported) == list \o Filter(imported, IdsOf(list), 1)

\* the list importVault hands to setCards and saveCards
ImportCards(list, jsonData, merge) ==
    IF merge THEN MergeCards(list, jsonData.cards) ELSE jsonData.cards

\* ------------------------------------------------------ getCollectionStats
\* the characters of the texts that marketValue and overallGrade hold
Chars(text) ==
    CASE text = "$50.00"  -> <<"$", "5", "0", ".", "0", "0">>
      [] text = "$120.50" -> <<"$", "1", "2", "0", ".", "5", "0">>
      [] text = "N/A"     -> <<"N", "/", "A">>
      [] text = "TBD"     -> <<"T", "B", "D">>
      [] text = "9.0"     -> <<"9", ".", "0">>
      [] text = "9.5"     -> <<"9", ".", "5">>
      [] text = "7.5"     -> <<"7", ".", "5">>
      [] text = "Base Set" -> <<"B", "a", "s", "e", " ", "S", "e", "t">>
      [] text = "Jungle" -> <<"J", "u", "n", "g", "l", "e">>
      [] text = "Unknown Set" -> <<"U", "n", "k", "n", "o", "w", "n", " ", "S", "e", "t">>
      [] text = "Unknown" -> <<"U", "n", "k", "n", "o", "w", "n">>
      [] text = "Card" -> <<"C", "a", "r", "d">>
      [] text = "base" -> <<"b", "a", "s", "e">>
      [] text = "JUNGLE" -> <<"J", "U", "N", "G", "L", "E">>
      [] text = "card" -> <<"c", "a", "r", "d">>
      [] text = "zz" -> <<"z", "z">>
      [] text = ""        -> <<>>
      [] text = Undefined -> <<"u", "n", "d", "e", "f", "i", "n", "e", "d">>
      [] text = Null      -> <<"n", "u", "l", "l">>

Digits == <<"0", "1", "2", "3", "4", "5", "6", "7", "8", "9">>

IsDigit(c) == \E d \in 1..10 : Digits[d] = c

DigitValue(c) == (CHOOSE d \in 1..10 : Digits[d] = c) - 1

\* String.prototype.replace(c, ''): the first occurrence of c is removed
ReplaceFirst(chars, c) ==
    LET hit == {k \in 1..Len(chars) : chars[k] = c}
        first == CHOOSE k \in hit : \A j \in hit : k <= j
    IN  IF hit = {} THEN chars
        ELSE SubSeq(chars, 1, first - 1) \o SubSeq(chars, first + 1, Len(chars))

\* the number of digits at the front of chars from position k on
RECURSIVE DigitRun(_, _)
DigitRun(chars, k) ==
    IF k <= Len(chars) /\ IsDigit(chars[k]) THEN 1 + DigitRun(chars, k + 1)
    ELSE 0

\* the value of the digits chars[from..to]
RECURSIVE Decimal(_, _, _)
Decimal(chars, from, to) ==
    IF to < from THEN 0
    ELSE 10 * Decimal(chars, from, to - 1) + DigitValue(chars[to])

NaN == [nan |-> TRUE, hundredths |-> 0]

\* parseFloat: the longest prefix digits[.digits] of the text, NaN when it has
\* no digit; the number is kept in hundredths (the texts of the model have at
\* most two decimals, and their sums are exact in binary floating point)
ParseFloat(chars) ==
    LET whole    == DigitRun(chars, 1)
        dot      == whole + 1 <= Len(chars) /\ chars[whole + 1] = "."
        frac     == IF dot THEN DigitRun(chars, whole + 2) ELSE 0
        tenth    == IF frac >= 1 THEN DigitValue(chars[whole + 2]) ELSE 0
        hundreth == IF frac >= 2 THEN DigitValue(chars[whole + 3]) ELSE 0
    IN  IF whole = 0 /\ frac = 0 THEN NaN
        ELSE [nan |-> FALSE,
              hundredths |-> 100 * Decimal(chars, 1, whole) + 10 * tenth + hundreth]

\* parseFloat(card.marketValue.replace('$', '').replace(',', '')) || 0
MoneyValue(card) ==
    LET parsed == ParseFloat(ReplaceFirst(
                      ReplaceFirst(Chars(Get(card, "marketValue")), "$"), ","))
    IN  IF parsed.nan THEN 0 ELSE parsed.hundredths

\* the entries of list from position k on that getTotalValue adds up
RECURSIVE TotalFrom(_, _)
TotalFrom(list, k) ==
    IF k > Len(list) THEN 0
    ELSE (IF Truthy(list[k], "marketValue") /\ list[k].marketValue # "N/A"
          THEN MoneyValue(list[k]) ELSE 0) + TotalFrom(list, k + 1)

\* cards.reduce(...) of getTotalValue, in hundredths
getTotalValue(list) == TotalFrom(list, 1)

\* card.overallGrade !== 'N/A' && !isNaN(parseFloat(card.overallGrade))
ValidGrade(card) ==
    /\ Get(card, "overallGrade") # "N/A"
    /\ ~ParseFloat(Chars(Get(card, "overallGrade"))).nan

\* parseFloat(card.overallGrade), in hundredths
GradeValue(card) == ParseFloat(Chars(Get(card, "overallGrade"))).hundredths

RECURSIVE GradeSum(_, _)
GradeSum(list, k) ==
    IF k > Len(list) THEN 0
    ELSE (IF ValidGrade(list[k]) THEN GradeValue(list[k]) ELSE 0)
         + GradeSum(list, k + 1)

\* Math.round(averageGrade * 10) / 10, in tenths: Math.round takes a half up
AverageGrade(list) ==
    LET valid == {k \in 1..Len(list) : ValidGrade(list[k])}
        n     == Cardinality(valid)
    IN  IF n = 0 THEN 0
        ELSE (2 * GradeSum(list, 1) + 10 * n) \div (20 * n)

\* gradeCounts[Math.floor(parseFloat(card.overallGrade))]
GradeCounts(list) ==
    LET valid == {k \in 1..Len(list) : ValidGrade(list[k])}
        floor(k) == GradeValue(list[k]) \div 100
    IN  [g \in {floor(k) : k \in valid} |->
            Cardinality({k \in valid : floor(k) = g})]

\* setCounts[card.set]
SetCounts(list) ==
    [name \in {Get(list[k], "set") : k \in 1..Len(list)} |->
        Cardinality({k \in 1..Len(list) : Get(list[k], "set") = name})]

\* cards.filter(card => card.marketValue !== 'N/A')
RECURSIVE Valued(_, _)
Valued(list, k) ==
    IF k > Len(list) THEN <<>>
    ELSE IF Get(list[k], "marketValue") # "N/A"
         THEN <<list[k]>> \o Valued(list, k + 1)
         ELSE Valued(list, k + 1)

\* an entry goes in front of the entries of its value
InsertBeforeTies(sorted, card) ==
    LET pos == Cardinality({k \in 1..Len(sorted) :
                               MoneyValue(sorted[k]) > MoneyValue(card)})
    IN  SubSeq(sorted, 1, pos) \o <<card>> \o SubSeq(sorted, pos + 1, Len(sorted))

\* the place of card in a list sorted by bValue - aValue: behind every entry
\* that the comparator does not put behind it (Array.prototype.sort is stable)
InsertByValue(sorted, card) ==
    LET pos == Cardinality({k \in 1..Len(sorted) :
                               MoneyValue(sorted[k]) >= MoneyValue(card)})
    IN  SubSeq(sorted, 1, pos) \o <<card>> \o SubSeq(sorted, pos + 1, Len(sorted))

\* .sort((a, b) => bValue - aValue) of the first k entries of list
RECURSIVE SortByValue(_, _)
SortByValue(list, k) ==
    IF k = 0 THEN <<>>
    ELSE InsertByValue(SortByValue(list, k - 1), list[k])

\* .slice(0, 5)
Slice5(list) == SubSeq(list, 1, IF Len(list) < 5 THEN Len(list) ELSE 5)

\* cards.filter(...).sort(...).slice(0, 5)
TopCards(list) ==
    LET valued == Valued(list, 1)
    IN  Slice5(SortByValue(valued, Len(valued)))

\* the comparator calls a.marketValue.replace: a TypeError when it is called
\* (two entries or more to sort) on a marketValue that is undefined or null
SortThrows(list) ==
    LET valued == Valued(list, 1)
    IN  /\ Len(valued) >= 2
        /\ \E k \in 1..Len(valued) :
              Get(valued[k], "marketValue") \in {Undefined, Null}

EmptyStats ==
    [threw |-> FALSE, totalCards |-> 0, totalValue |-> 0, averageGrade |-> 0,
     gradeCounts |-> <<>>, setCounts |-> <<>>, topCards |-> <<>>]

\* what a call of getCollectionStats gives: its return value, or threw
getCollectionStats(list) ==
    IF Len(list) = 0 THEN EmptyStats
    ELSE IF SortThrows(list) THEN [threw |-> TRUE]
    ELSE [threw        |-> FALSE,
          totalCards   |-> Len(list),
          totalValue   |-> getTotalValue(list),
          averageGrade |-> AverageGrade(list),
          gradeCounts  |-> GradeCounts(list),
          setCounts    |-> SetCounts(list),
          topCards     |-> TopCards(list)]

\* ----------------------------------------------------- generateMockGrading
\* the first character of a name, "" when it has none
FirstChar(cardName) ==
    CASE cardName = "Charizard" -> "C"
      [] cardName = "Pikachu"   -> "P"
      [] cardName = "Blastoise" -> "B"
      [] cardName = "Venusaur"  -> "V"
      [] cardName = "Alakazam"  -> "A"
      [] cardName = "Unknown"   -> "U"
      [] cardName = "4ever"     -> "4"
      [] cardName = ""          -> ""

\* the case of the character is kept
KeepCase(char) == char

\* String.prototype.toLowerCase, on one character
LowerCase(char) ==
    CASE char = "A" -> "a"
      [] char = "B" -> "b"
      [] char = "C" -> "c"
      [] char = "D" -> "d"
      [] char = "E" -> "e"
      [] char = "F" -> "f"
      [] char = "G" -> "g"
      [] char = "H" -> "h"
      [] char = "I" -> "i"
      [] char = "J" -> "j"
      [] char = "K" -> "k"
      [] char = "L" -> "l"
      [] char = "M" -> "m"
      [] char = "N" -> "n"
      [] char = "O" -> "o"
      [] char = "P" -> "p"
      [] char = "Q" -> "q"
      [] char = "R" -> "r"
      [] char = "S" -> "s"
      [] char = "T" -> "t"
      [] char = "U" -> "u"
      [] char = "V" -> "v"
      [] char = "W" -> "w"
      [] char = "X" -> "x"
      [] char = "Y" -> "y"
      [] char = "Z" -> "z"
      [] OTHER      -> char

\* charCodeAt(0) of a one-character string; 0 stands for the NaN of ""
CharCode(char) ==
    CASE char = "A" -> 65  [] char = "B" -> 66  [] char = "C" -> 67
      [] char = "P" -> 80  [] char = "U" -> 85  [] char = "V" -> 86
      [] char = "a" -> 97  [] char = "b" -> 98  [] char = "c" -> 99
      [] char = "p" -> 112 [] char = "u" -> 117 [] char = "v" -> 118
      [] char = "4" -> 52
      [] char = ""  -> 0

\* cardName.toLowerCase().charCodeAt(0)
FirstCharCode(cardName) == CharCode(LowerCase(FirstChar(cardName)))

\* the default parameter cardName = 'Unknown' stands in for undefined only
NameOrDefault(cardName) == IF cardName = Undefined THEN "Unknown" ELSE cardName

\* cardName.toLowerCase().charCodeAt(0) || 80
Seed(cardName) ==
    IF FirstCharCode(cardName) = 0 THEN 80 ELSE FirstCharCode(cardName)

\* 7 + (seed % 3)
BaseGrade(seed) == 7 + (seed % 3)

\* baseGrade + (Math.random() - 0.5) * 1.5, with the draw in thousandths and
\* the sum in two-thousandths
Varied(baseGrade, draw) == 2000 * baseGrade + 3 * (draw - 500)

\* Math.min(10, Math.max(5, x)), in two-thousandths
Clamp(x) ==
    LET atLeast == IF x < 5 * 2000 THEN 5 * 2000 ELSE x
    IN  IF atLeast > 10 * 2000 THEN 10 * 2000 ELSE atLeast

\* Math.round(x * 10): the division by 10 is left out
RoundNoDivide(x) == 10 * ((x + 100) \div 200)

\* Math.round(x * 10) / 10, from two-thousandths to tenths
RoundTenth(x) == (x + 100) \div 200

Axes == {"centering", "surface", "edges", "corners"}

\* the grading of a name under one draw for each axis, in tenths, with the
\* name and the baseGrade it was made from; a name that is null has no
\* toLowerCase
generateMockGrading(cardName, draws) ==
    IF cardName = Null THEN [threw |-> TRUE]
    ELSE [threw     |-> FALSE,
          cardName  |-> cardName,
          baseGrade |-> BaseGrade(Seed(NameOrDefault(cardName))),
          axes      |-> [a \in Axes |->
                           RoundTenth(Clamp(Varied(
                               BaseGrade(Seed(NameOrDefault(cardName))),
                               draws[a])))]]


\* ---------------------------------------------------------------- scanCard
\* the names of mockCards
MockCards == <<"Charizard", "Pikachu", "Blastoise", "Venusaur", "Alakazam">>

\* a result of scanCard: source tells who identified the card
ScanFailure(error) ==
    [success |-> FALSE, source |-> "none", error |-> error,
     grading |-> [threw |-> TRUE]]

ScanSuccess(source, grading) ==
    [success |-> TRUE, source |-> source, error |-> "", grading |-> grading]

\* randomCard is at Math.floor(Math.random() * mockCards.length), here
\* counted from 1
generateMockScanResult(pick, draws) ==
    ScanSuccess("mock",
        generateMockGrading(MockCards[((pick * Len(MockCards)) \div 1000) + 1],
                            draws))

\* what the try block makes of a response; a throw inside it is caught by the
\* handler's own catch, as an error with a message and no code
ScanResponse(outcome, draws) ==
    IF outcome.success
    THEN IF generateMockGrading(outcome.name, draws).threw
         THEN ScanFailure("message")
         ELSE ScanSuccess("backend", generateMockGrading(outcome.name, draws))
    ELSE ScanFailure("response")

\* the catch block: outcome.network tells that the message includes 'Network'
ScanError(outcome, dev, pick, draws) ==
    IF outcome.code = "NETWORK_ERROR" \/ outcome.network
    THEN ScanFailure("Network error. Please check your connection.")
    ELSE IF outcome.code = "ECONNABORTED"
    THEN ScanFailure("Request timed out. Please try again.")
    ELSE IF dev /\ (outcome.code = "ECONNREFUSED" \/ outcome.status = 404)
    THEN generateMockScanResult(pick, draws)
    ELSE ScanFailure("message")

scanCard(outcome, dev, pick, draws) ==
    IF outcome.kind = "response"
    THEN ScanResponse(outcome, draws)
    ELSE ScanError(outcome, dev, pick, draws)

\* ---------------------------------------- searchCards / getFilteredCards
\* text.toLowerCase(), character by character
LowerChars(chars) == [k \in 1..Len(chars) |-> LowerCase(chars[k])]

\* String.prototype.includes
Includes(chars, part) ==
    \E start \in 0..(Len(chars) - Len(part)) :
        \A k \in 1..Len(part) : chars[start + k] = part[k]

\* a value that has a toLowerCase method
IsString(value) == value \notin {Undefined, Null}

\* card.f.toLowerCase().includes(lowercaseQuery) for the fields from the
\* k-th on, joined by ||: "throw" when a field read before a match is not a
\* string
RECURSIVE SearchFields(_, _, _, _)
SearchFields(card, fields, lowercaseQuery, k) ==
    IF k > Len(fields) THEN "no"
    ELSE IF ~IsString(Get(card, fields[k])) THEN "throw"
    ELSE IF Includes(LowerChars(Chars(Get(card, fields[k]))), lowercaseQuery)
    THEN "yes"
    ELSE SearchFields(card, fields, lowercaseQuery, k + 1)

SearchMatch(card, query) ==
    SearchFields(card, <<"name", "set", "setNumber">>,
                 LowerChars(Chars(query)), 1)

searchCards(list, query) ==
    IF \E k \in 1..Len(list) : SearchMatch(list[k], query) = "throw"
    THEN [threw |-> TRUE, value |-> <<>>]
    ELSE [threw |-> FALSE,
          value |-> SelectSeq(list, LAMBDA card : SearchMatch(card, query) = "yes")]

\* filters.f is a property of the filters object
Supplied(filters, f) == f \in filters.has

\* parseFloat(card.overallGrade) >= filters.minGrade, in hundredths
AtLeast(card, minGrade) ==
    LET grade == ParseFloat(Chars(Get(card, "overallGrade")))
    IN  ~grade.nan /\ grade.hundredths >= minGrade

AtMost(card, maxGrade) ==
    LET grade == ParseFloat(Chars(Get(card, "overallGrade")))
    IN  ~grade.nan /\ grade.hundredths <= maxGrade

\* if (filters.minGrade) ...
ByMinGrade(list, filters) ==
    IF Supplied(filters, "minGrade") /\ filters.minGrade # 0
    THEN SelectSeq(list, LAMBDA card : AtLeast(card, filters.minGrade))
    ELSE list

\* if (filters.maxGrade) ...
ByMaxGrade(list, filters) ==
    IF Supplied(filters, "maxGrade") /\ filters.maxGrade # 0
    THEN SelectSeq(list, LAMBDA card : AtMost(card, filters.maxGrade))
    ELSE list

\* if (filters.set) ...
SetFiltered(filters) == Supplied(filters, "set") /\ filters.set # ""

\* card.set.toLowerCase() of an entry without a set
SetThrows(list, filters) ==
    /\ SetFiltered(filters)
    /\ \E k \in 1..Len(list) : ~IsString(Get(list[k], "set"))

InSet(card, filters) ==
    Includes(LowerChars(Chars(Get(card, "set"))), LowerChars(Chars(filters.set)))

BySet(list, filters) ==
    IF SetFiltered(filters)
    THEN SelectSeq(list, LAMBDA card : InSet(card, filters))
    ELSE list

\* card.tags && card.tags.some(tag => filters.tags.includes(tag))
SharesTag(card, filters) ==
    /\ "tags" \in DOMAIN card
    /\ \E k \in 1..Len(card.tags), j \in 1..Len(filters.tags) :
          card.tags[k] = filters.tags[j]

\* if (filters.tags && filters.tags.length > 0) ...
ByTags(list, filters) ==
    IF Supplied(filters, "tags") /\ Len(filters.tags) > 0
    THEN SelectSeq(list, LAMBDA card : SharesTag(card, filters))
    ELSE list

getFilteredCards(list, filters) ==
    LET graded == ByMaxGrade(ByMinGrade(list, filters), filters)
    IN  IF SetThrows(graded, filters)
        THEN [threw |-> TRUE, value |-> <<>>]
        ELSE [threw |-> FALSE,
              value |-> ByTags(BySet(graded, filters), filters)]

\* -------------------------------------------------------------- RadarChart
\* Lengths are in thousandths of a pixel, values in tenths of a grade, and
\* angles in units of pi / (2 * numberOfSides), in which every angle of the
\* chart is a whole number: angleStep is 4, pi / 2 is numberOfSides.  The
\* doubles the code computes compare with pi / 2 and 3 * pi / 2 as these
\* whole numbers do: i * angleStep - pi / 2 for the bottom axis is the double
\* pi / 2 itself for every even numberOfSides up to 12.

\* i * angleStep - Math.PI / 2, for the axis i counted from 0
Angle(i, numberOfSides) == (i * 4) - numberOfSides

HalfPi(numberOfSides) == numberOfSides

\* the distance from the centre of a vertex at radius * (value / maxValue),
\* of radius = center - 40 and center = size / 2
Distance(size, value, maxValue) ==
    (1000 * ((size \div 2) - 40) * value) \div (10 * maxValue)

\* in tenths
GridLevels == <<20, 40, 60, 80, 100>>

TextAnchor(angle, numberOfSides) ==
    IF angle > HalfPi(numberOfSides) /\ angle < 3 * HalfPi(numberOfSides)
    THEN "end"
    ELSE IF angle = HalfPi(numberOfSides) \/ angle = 3 * HalfPi(numberOfSides)
    THEN "middle"
    ELSE "start"

\* what RadarChart draws for the values of its axes, axis i at position
\* i + 1; outerRing is the distance of the vertices of the last grid polygon
RadarChart(data, size, maxValue) ==
    [numberOfSides |-> Len(data),
     maxValue      |-> maxValue,
     values        |-> data,
     outerRing     |-> Distance(size, GridLevels[Len(GridLevels)], maxValue),
     dataPolygon   |-> [i \in 1..Len(data) |-> Distance(size, data[i], maxValue)],
     angles        |-> [i \in 1..Len(data) |-> Angle(i - 1, Len(data))],
     textAnchors   |-> [i \in 1..Len(data) |->
                           TextAnchor(Angle(i - 1, Len(data)), Len(data))]]

\* ------------------------------------------------------------------ inputs
\* what callers pass to addCard
CardInputs ==
    { [id |-> "a", name |-> "Raichu", set |-> "", setNumber |-> "14/102",
       overallGrade |-> "9.0", marketValue |-> "$50.00",
       photoUri |-> "file:///r.jpg",
       scannedAt |-> "2023-11-14T22:13:19.000Z", confidence |-> 1],
      [name |-> "Mew"],
      \* as handleSaveToVault builds it when the scan result has no set_number
      [id |-> "e", name |-> "Abra", set |-> "Jungle", setNumber |-> Undefined,
       scannedAt |-> "2023-11-14T22:13:19.500Z"] }

\* ids passed to updateCard and deleteCard
IdInputs == {"a", "zz"}

\* patches passed to updateCard
UpdateInputs == { [notes |-> "mint", overallGrade |-> "9.5"] }

\* a list written by an earlier session
StoredCards ==
    <<BuildCard([id |-> "b", name |-> "Eevee", photoUri |-> "file:///b.jpg"], 1),
      BuildCard([id |-> "a", name |-> "Pikachu", set |-> "Base Set",
                 photoUri |-> "file:///a.jpg"], 1)>>

\* the cards array of an export file made elsewhere
ForeignCards ==
    JsonList(<<ExportCard(BuildCard([id |-> "a", name |-> "Pikachu"], 1)),
               ExportCard(BuildCard([id |-> "c", name |-> "Jolteon"], 1)),
               ExportCard(BuildCard([id |-> "d", name |-> "Vaporeon"], 1))>>)

\* texts passed to importVault, besides the vault's own export
ImportInputs ==
    { [kind |-> "garbage", cardsKind |-> "absent",   cards |-> <<>>],
      [kind |-> "json",    cardsKind |-> "absent",   cards |-> <<>>],
      [kind |-> "json",    cardsKind |-> "notarray", cards |-> <<>>],
      [kind |-> "json",    cardsKind |-> "array",    cards |-> ForeignCards] }

\* the options passed with a text: a foreign file is merged in
MergeInputs(jsonData) == IF jsonData.cardsKind = "array" THEN {TRUE} ELSE BOOLEAN

\* what the entries of a vault that is read hold in the fields the
\* statistics look at: a priced and graded card, a card with the defaults of
\* addCard, a dearer card, and a card whose value was edited to a note
StatKinds ==
    << [marketValue |-> "$50.00",  overallGrade |-> "9.0", set |-> "Base Set"],
       [name |-> "Card"],
       [marketValue |-> "$120.50", overallGrade |-> "9.5", set |-> "Base Set"],
       [marketValue |-> "TBD",     overallGrade |-> "7.5", set |-> "Jungle"] >>

PositionIds == <<"1", "2", "3", "4", "5", "6", "7", "8">>

\* the vault of n entries whose k-th entry is of kind kinds[k], as addCard
\* built the entries and a load read them back
VaultOf(kinds) ==
    JsonList([k \in 1..Len(kinds) |->
        BuildCard(Spread([id |-> PositionIds[k], name |-> "Card",
                          photoUri |-> "file:///p.jpg"],
                         StatKinds[kinds[k]]), 1)])

\* the vaults that are read
VaultLists ==
    {VaultOf(kinds) : kinds \in UNION {[1..n -> 1..Len(StatKinds)] : n \in 0..MaxCards}}

\* names passed to generateMockGrading: undefined is a missing name
NameInputs == {"Charizard", "Pikachu", "4ever", "", Undefined, Null}

\* what Math.random() gives, in thousandths
RandomDraws == {(1000 * k) \div DrawSteps : k \in 0..(DrawSteps - 1)} \cup {999}

\* what the POST to /api/scan comes to: a response, or an error of axios with
\* its code, whether its message includes 'Network', and the HTTP status
Outcome(kind, cause, success, name, code, network, status) ==
    [kind |-> kind, cause |-> cause, success |-> success, name |-> name,
     code |-> code, network |-> network, status |-> status]

ApiOutcomes ==
    { Outcome("response", "none", TRUE, "Charizard", "", FALSE, 200),
      Outcome("response", "none", TRUE, Undefined, "", FALSE, 200),
      Outcome("response", "none", FALSE, Undefined, "", FALSE, 200),
      Outcome("error", "network", FALSE, Undefined, "NETWORK_ERROR", FALSE, 0),
      Outcome("error", "network", FALSE, Undefined, "ERR_NETWORK", TRUE, 0),
      Outcome("error", "timeout", FALSE, Undefined, "ECONNABORTED", FALSE, 0),
      Outcome("error", "refused", FALSE, Undefined, "ECONNREFUSED", FALSE, 0),
      Outcome("error", "refused", FALSE, Undefined, "ERR_NETWORK", TRUE, 0),
      Outcome("error", "http", FALSE, Undefined, "ERR_BAD_REQUEST", FALSE, 404),
      Outcome("error", "http", FALSE, Undefined, "ERR_BAD_RESPONSE", FALSE, 500) }

\* the outcomes whose result draws random numbers
Draws(outcome, dev) ==
    \/ outcome.kind = "response" /\ outcome.success
    \/ /\ outcome.kind = "error" /\ dev
       /\ scanCard(outcome, dev, 0, [a \in Axes |-> 0]).success

\* the draws of the grading inside one scan: one for centering, one for the
\* other three axes
ScanDraws ==
    { draws \in [Axes -> RandomDraws] :
        /\ draws["surface"] = draws["edges"]
        /\ draws["edges"] = draws["corners"] }

\* the data of charts: values in tenths, below, at and above the scales
ChartData == UNION { [1..n -> {70, 100, 120}] : n \in 3..MaxAxes }

\* entries that are searched and filtered: graded and tagged, all defaults,
\* ungraded text, and one whose set was given as undefined to addCard
QueryKinds ==
    << [overallGrade |-> "9.0", set |-> "Base Set", tags |-> <<"holo">>,
        marketValue |-> "$50.00"],
       [name |-> "Card"],
       [overallGrade |-> "7.5", set |-> "Jungle", tags |-> <<"trade", "holo">>,
        marketValue |-> "$120.50"],
       [overallGrade |-> "9.5", set |-> Undefined] >>

QueryVault(kinds) ==
    JsonList([k \in 1..Len(kinds) |->
        BuildCard(Spread([id |-> PositionIds[k], name |-> "Card",
                          photoUri |-> "file:///p.jpg"],
                         QueryKinds[kinds[k]]), 1)])

QueryLists ==
    { QueryVault(kinds) :
        kinds \in UNION { [1..n -> 1..Len(QueryKinds)] : n \in 0..MaxFiltered } }

\* a filters object: has names its properties, the others are not there
Filters(has, minGrade, maxGrade, set, tags) ==
    [has |-> has, minGrade |-> minGrade, maxGrade |-> maxGrade, set |-> set,
     tags |-> tags]

\* grades in hundredths
FilterInputs ==
    { Filters({}, 0, 0, "", <<>>),
      Filters({"minGrade"}, 900, 0, "", <<>>),
      Filters({"maxGrade"}, 0, 900, "", <<>>),
      Filters({"minGrade"}, 0, 0, "", <<>>),
      Filters({"set"}, 0, 0, "base", <<>>),
      Filters({"tags"}, 0, 0, "", <<"trade">>),
      Filters({"tags"}, 0, 0, "", <<>>),
      Filters({"minGrade", "maxGrade", "set", "tags"}, 750, 900, "JUNGLE",
              <<"rare", "holo">>) }

\* ------------------------------------------------------------------- state
VARIABLES
    stateCards,   \* the list React holds: the last value given to setCards
    cards,        \* the `cards` constant of the latest render of VaultProvider
    isLoading,    \* the last value given to setIsLoading
    storage,      \* the value under VAULT_STORAGE_KEY in AsyncStorage
    calls,        \* the calls that await AsyncStorage, in the order made
    issued,       \* the number of calls made so far
    settled,      \* the call whose promise settled last
    lastSet,      \* the call whose setCards gave stateCards its value
    rendered,     \* the number of the call whose list the latest render shows
    now,          \* the latest reading of the clock
    seen          \* what the latest call of a synchronous read gave its caller

vars == <<stateCards, cards, isLoading, storage, calls, issued, settled,
          lastSet, rendered, now, seen>>

NoArg == [none |-> TRUE]

\* before any promise has settled
NoCall == [n |-> 0, op |-> "none", io |-> "none", st |-> "none", from |-> 0,
           arg |-> NoArg, ret |-> <<>>]

\* before any call of setCards
NoSet == [n |-> 0, op |-> "none", from |-> 0]

\* a call awaiting AsyncStorage: made from the render `from`, to hand newCards
\* to the storage and ret to its caller
Pending(op, io, arg, newCards, ret) ==
    [n |-> issued + 1, op |-> op, io |-> io, from |-> rendered, arg |-> arg,
     newCards |-> newCards, ret |-> ret]

\* a call whose promise resolved with its return value
Resolved(call) ==
    [n |-> call.n, op |-> call.op, io |-> call.io, st |-> "ok",
     from |-> call.from, arg |-> call.arg, ret |-> call.ret]

\* a call whose promise rejected
Thrown(call) ==
    [n |-> call.n, op |-> call.op, io |-> call.io, st |-> "err",
     from |-> call.from, arg |-> call.arg, ret |-> <<>>]

\* the call that hands a list to setCards
Setter(op) == [n |-> issued + 1, op |-> op, from |-> rendered]

\* calls without its i-th element
Remove(seq, i) == SubSeq(seq, 1, i - 1) \o SubSeq(seq, i + 1, Len(seq))

\* the initial load is call 1
CanCall == issued <= MaxCalls

CanAdd == issued <= MaxBurst

FreshCards == stateCards

\* `cards` as the functions created by the latest render read it
ClosureCards == cards

\* the readings Date.now() and new Date() can give at this point
Clock == now..MaxClock

\* addCard reads the clock when cardData.id or cardData.scannedAt is falsy
AddClock(cardData) ==
    IF Truthy(cardData, "id") /\ Truthy(cardData, "scannedAt") THEN {now}
    ELSE Clock

\* updateCard reads the clock for each entry that matches
UpdateClock(cardId) ==
    IF cardId \in IdsOf(ClosureCards) THEN Clock ELSE {now}

\* no synchronous read has been called
NoRead == [op |-> "none", k |-> 0, value |-> <<>>]

\* the op-th read gave value; k tells a first call from a repeated one
Read(op, value) ==
    [op |-> op, k |-> IF seen.op = op THEN 2 ELSE 1, value |-> value]

\* useState([]), useState(true), and the effect that calls loadCards
Init ==
    /\ stateCards = <<>>
    /\ cards = <<>>
    /\ isLoading = TRUE
    /\ storage \in {StorageAbsent, StorageGarbage, StorageJson(StoredCards)}
    /\ calls = <<[n |-> 1, op |-> "loadCards", io |-> "getItem", from |-> 0,
                  arg |-> NoArg, newCards |-> <<>>, ret |-> <<>>]>>
    /\ issued = 1
    /\ settled = NoCall
    /\ lastSet = NoSet
    /\ rendered = 0
    /\ now = 1
    /\ seen = NoRead

\* the component function runs again and its closures see the new state
Render ==
    /\ rendered # lastSet.n
    /\ cards' = stateCards
    /\ rendered' = lastSet.n
    /\ UNCHANGED <<stateCards, isLoading, storage, calls, issued, settled,
                   lastSet, now, seen>>

\* addCard up to its await
AddCard(cardData, t) ==
    /\ now' = t
    /\ LET card == BuildCard(cardData, t)
           newCards == PrependCard(card, ClosureCards)
       IN  /\ stateCards' = newCards
           /\ calls' = Append(calls,
                  Pending("addCard", "setItem", cardData, newCards, <<card>>))
    /\ lastSet' = Setter("addCard")
    /\ issued' = issued + 1
    /\ UNCHANGED <<cards, isLoading, storage, settled, rendered, seen>>

\* updateCard up to its await
UpdateCard(cardId, updates, t) ==
    /\ now' = t
    /\ LET updatedCards == UpdateCards(ClosureCards, cardId, updates, t)
       IN  /\ stateCards' = updatedCards
           /\ calls' = Append(calls,
                  Pending("updateCard", "setItem", NoArg, updatedCards,
                          getCardById(updatedCards, cardId)))
    /\ lastSet' = Setter("updateCard")
    /\ issued' = issued + 1
    /\ UNCHANGED <<cards, isLoading, storage, settled, rendered, seen>>

\* deleteCard up to its await
DeleteCard(cardId) ==
    /\ LET updatedCards == DeleteCards(ClosureCards, cardId)
       IN  /\ stateCards' = updatedCards
           /\ calls' = Append(calls,
                  Pending("deleteCard", "setItem", NoArg, updatedCards, <<>>))
    /\ lastSet' = Setter("deleteCard")
    /\ issued' = issued + 1
    /\ UNCHANGED <<cards, isLoading, storage, settled, rendered, now, seen>>

\* importVault up to its await, or to its throw
ImportVault(jsonData, merge) ==
    /\ issued' = issued + 1
    /\ IF ValidImport(jsonData)
       THEN LET newCards == ImportCards(ClosureCards, jsonData, merge)
            IN  /\ stateCards' = newCards
                /\ lastSet' = Setter("importVault")
                /\ calls' = Append(calls,
                       Pending("importVault", "setItem", NoArg, newCards,
                               <<[imported |-> Len(jsonData.cards),
                                  total |-> Len(newCards)]>>))
                /\ UNCHANGED settled
       ELSE /\ settled' = Thrown(Pending("importVault", "none", NoArg, <<>>, <<>>))
            /\ UNCHANGED <<stateCards, lastSet, calls>>
    /\ UNCHANGED <<cards, isLoading, storage, rendered, now, seen>>

\* importVault(exportVault(), {merge: false})
ImportExported == ImportVault(exportVault(ClosureCards, now), FALSE)

\* clearVault up to its await
ClearVault ==
    /\ stateCards' = <<>>
    /\ lastSet' = Setter("clearVault")
    /\ calls' = Append(calls, Pending("clearVault", "removeItem", NoArg, <<>>, <<>>))
    /\ issued' = issued + 1
    /\ UNCHANGED <<cards, isLoading, storage, settled, rendered, now, seen>>

\* refreshCards: loadCards up to its await
RefreshCards ==
    /\ isLoading' = TRUE
    /\ calls' = Append(calls, Pending("refreshCards", "getItem", NoArg, <<>>, <<>>))
    /\ issued' = issued + 1
    /\ UNCHANGED <<stateCards, cards, storage, settled, lastSet, rendered, now, seen>>

\* the entries themselves get photoUri: null
CardsPhotosNulled(list) == [k \in 1..Len(list) |-> ExportCard(list[k])]

\* cards.map(card => ({ ...card, photoUri: null })) makes new objects in a
\* new array: the list that was exported is as it was
CardsAfterExport(list) == list

\* exportVault: it returns the text of the package and awaits nothing; the
\* list of the state is the array of the closure when no setCards came after
\* the latest render
ExportVault(t) ==
    /\ now' = t
    /\ seen' = Read("exportVault", exportVault(ClosureCards, t))
    /\ issued' = issued + 1
    /\ cards' = CardsAfterExport(cards)
    /\ stateCards' = IF rendered = lastSet.n THEN CardsAfterExport(stateCards)
                     ELSE stateCards
    /\ UNCHANGED <<isLoading, storage, calls, settled, lastSet, rendered>>

SaveSwallowed(call) == Resolved(call)

\* saveCards: catch (error) { ...; throw error }, rethrown by the caller's catch
SaveFailed(call) == Thrown(call)

\* AsyncStorage.setItem resolves: saveCards and the operation return
WriteOk(i) ==
    /\ calls[i].io = "setItem"
    /\ storage' = StorageJson(calls[i].newCards)
    /\ settled' = Resolved(calls[i])
    /\ calls' = Remove(calls, i)
    /\ UNCHANGED <<stateCards, cards, isLoading, issued, lastSet, rendered, now, seen>>

\* AsyncStorage.setItem rejects
WriteFail(i) ==
    /\ calls[i].io = "setItem"
    /\ settled' = SaveFailed(calls[i])
    /\ calls' = Remove(calls, i)
    /\ UNCHANGED <<stateCards, cards, isLoading, storage, issued, lastSet,
                   rendered, now, seen>>

\* AsyncStorage.removeItem resolves
RemoveOk(i) ==
    /\ calls[i].io = "removeItem"
    /\ storage' = StorageAbsent
    /\ settled' = Resolved(calls[i])
    /\ calls' = Remove(calls, i)
    /\ UNCHANGED <<stateCards, cards, isLoading, issued, lastSet, rendered, now, seen>>

\* AsyncStorage.removeItem rejects
RemoveFail(i) ==
    /\ calls[i].io = "removeItem"
    /\ settled' = Thrown(calls[i])
    /\ calls' = Remove(calls, i)
    /\ UNCHANGED <<stateCards, cards, isLoading, storage, issued, lastSet,
                   rendered, now, seen>>

LoadRethrown(call) == Thrown(call)

\* loadCards: catch (error) { ...; setCards([]) } finally { ... }, no rethrow
LoadSettled(call) == Resolved(call)

\* isLoading is left as the load found it
AfterLoadKept(loading) == loading

\* finally { setIsLoading(false) }
AfterLoad(loading) == FALSE

\* what loadCards gives to setCards when getItem resolved with stored
LoadedCards(stored) == IF stored.kind = "json" THEN stored.cards ELSE <<>>

\* AsyncStorage.getItem resolves: the rest of loadCards
LoadOk(i) ==
    /\ calls[i].io = "getItem"
    /\ stateCards' = LoadedCards(storage)
    /\ lastSet' = [n |-> calls[i].n, op |-> calls[i].op, from |-> calls[i].from]
    /\ isLoading' = AfterLoad(isLoading)
    /\ settled' = LoadSettled(calls[i])
    /\ calls' = Remove(calls, i)
    /\ UNCHANGED <<cards, storage, issued, rendered, now, seen>>

\* AsyncStorage.getItem rejects: the catch and finally of loadCards
LoadFail(i) ==
    /\ calls[i].io = "getItem"
    /\ stateCards' = <<>>
    /\ lastSet' = [n |-> calls[i].n, op |-> calls[i].op, from |-> calls[i].from]
    /\ isLoading' = AfterLoad(isLoading)
    /\ settled' = LoadSettled(calls[i])
    /\ calls' = Remove(calls, i)
    /\ UNCHANGED <<cards, storage, issued, rendered, now, seen>>

\* a caller calls an operation
Call ==
    \/ \E cardData \in CardInputs : \E t \in AddClock(cardData) :
          AddCard(cardData, t)
    \/ \E cardId \in IdInputs, updates \in UpdateInputs :
          \E t \in UpdateClock(cardId) : UpdateCard(cardId, updates, t)
    \/ \E cardId \in IdInputs : DeleteCard(cardId)
    \/ \E jsonData \in ImportInputs : \E merge \in MergeInputs(jsonData) :
          ImportVault(jsonData, merge)
    \/ ImportExported
    \/ ClearVault
    \/ RefreshCards
    \/ \E t \in Clock : ExportVault(t)

\* AsyncStorage answers a request
Answer ==
    \/ \E i \in 1..Len(calls) : WriteOk(i)
    \/ \E i \in 1..Len(calls) : RemoveOk(i)
    \/ \E i \in 1..Len(calls) : LoadOk(i)

\* AsyncStorage fails a request
Failure ==
    \/ \E i \in 1..Len(calls) : WriteFail(i)
    \/ \E i \in 1..Len(calls) : RemoveFail(i)
    \/ \E i \in 1..Len(calls) : LoadFail(i)

Next ==
    \/ CanCall /\ Call
    \/ Render
    \/ Answer
    \/ Failure

Spec == Init /\ [][Next]_vars

\* AsyncStorage settles the promise of a getItem
LoadAnswered == \E i \in 1..Len(calls) : LoadOk(i) \/ LoadFail(i)

\* the provider with a storage that answers every read in the end
SpecLive == Spec /\ WF_vars(LoadAnswered)

\* callers that only add cards, one call after the other without awaiting
Burst ==
    \E cardData \in CardInputs : \E t \in AddClock(cardData) : AddCard(cardData, t)

\* a storage that fails no request
NextBurst ==
    \/ CanAdd /\ Burst
    \/ Render
    \/ \E i \in 1..Len(calls) : WriteOk(i)
    \/ \E i \in 1..Len(calls) : LoadOk(i)

SpecBurst == Init /\ [][NextBurst]_vars

\* ----------------------------------------------------- synchronous reads
\* cards.sort(...): the array of the state itself is put in order
CardsSortedInPlace(list) == SortByValue(list, Len(list))

\* getCollectionStats sorts the array that cards.filter made: `cards` is as
\* it was
CardsAfterStats(list) == list

\* a caller calls getCollectionStats
GetCollectionStats ==
    /\ seen' = Read("getCollectionStats", getCollectionStats(ClosureCards))
    /\ cards' = CardsAfterStats(cards)
    /\ stateCards' = IF rendered = lastSet.n THEN CardsAfterStats(stateCards)
                     ELSE stateCards
    /\ UNCHANGED <<isLoading, storage, calls, issued, settled, lastSet,
                   rendered, now>>

\* a vault that was loaded from the storage and rendered, no call in flight
Loaded(list) ==
    /\ storage = StorageJson(list)
    /\ stateCards = list
    /\ cards = list
    /\ isLoading = FALSE
    /\ calls = <<>>
    /\ issued = 1
    /\ settled = [n |-> 1, op |-> "loadCards", io |-> "getItem", st |-> "ok",
                  from |-> 0, arg |-> NoArg, ret |-> <<>>]
    /\ lastSet = [n |-> 1, op |-> "loadCards", from |-> 0]
    /\ rendered = 1
    /\ now = 1
    /\ seen = NoRead

InitRead == \E list \in VaultLists : Loaded(list)

\* callers that only read the statistics
NextRead == GetCollectionStats

SpecRead == InitRead /\ [][NextRead]_vars

\* the other reads of the vault, each on the list of the latest render
GetCardById(cardId) ==
    /\ seen' = Read("getCardById", getCardById(ClosureCards, cardId))
    /\ UNCHANGED <<stateCards, cards, isLoading, storage, calls, issued,
                   settled, lastSet, rendered, now>>

SearchCards(query) ==
    /\ seen' = Read("searchCards", [query |-> query,
                                    result |-> searchCards(ClosureCards, query)])
    /\ UNCHANGED <<stateCards, cards, isLoading, storage, calls, issued,
                   settled, lastSet, rendered, now>>

GetFilteredCards(filters) ==
    /\ seen' = Read("getFilteredCards",
                    [filters |-> filters,
                     result |-> getFilteredCards(ClosureCards, filters)])
    /\ UNCHANGED <<stateCards, cards, isLoading, storage, calls, issued,
                   settled, lastSet, rendered, now>>

GetTotalValue ==
    /\ seen' = Read("getTotalValue", getTotalValue(ClosureCards))
    /\ UNCHANGED <<stateCards, cards, isLoading, storage, calls, issued,
                   settled, lastSet, rendered, now>>

InitQuery == \E list \in QueryLists : Loaded(list)

NextQuery ==
    \/ \E cardId \in {"1", "2", "zz"} : GetCardById(cardId)
    \/ \E query \in {"card", "JUNGLE", "zz"} : SearchCards(query)
    \/ \E filters \in FilterInputs : GetFilteredCards(filters)
    \/ GetTotalValue
    \/ GetCollectionStats
    \/ CanCall /\ \E t \in Clock : ExportVault(t)

\* screens that only read a loaded vault
SpecQuery == InitQuery /\ [][NextQuery]_vars

\* ---------------------------------------------------------- scan service
\* the scan service calls generateMockGrading
GenerateMockGrading(cardName, draws) ==
    /\ seen' = Read("generateMockGrading", generateMockGrading(cardName, draws))
    /\ UNCHANGED <<stateCards, cards, isLoading, storage, calls, issued,
                   settled, lastSet, rendered, now>>

NextGrading ==
    \E cardName \in NameInputs, draws \in [Axes -> RandomDraws] :
        GenerateMockGrading(cardName, draws)

\* the scan service at work while the vault provider is mounted
SpecGrading == Init /\ [][NextGrading]_vars

\* one scan: the result is what the screen is given
ScanCard(outcome, dev, pick, draws) ==
    /\ seen' = Read("scanCard", [outcome |-> outcome, dev |-> dev,
                                 result |-> scanCard(outcome, dev, pick, draws)])
    /\ UNCHANGED <<stateCards, cards, isLoading, storage, calls, issued,
                   settled, lastSet, rendered, now>>

InitScan == Init /\ storage = StorageAbsent

NextScan ==
    \E outcome \in ApiOutcomes, dev \in BOOLEAN :
        IF Draws(outcome, dev)
        THEN \E pick \in RandomDraws, draws \in ScanDraws :
                 ScanCard(outcome, dev, pick, draws)
        ELSE ScanCard(outcome, dev, 0, [a \in Axes |-> 0])

\* scans on a first start of the application
SpecScan == InitScan /\ [][NextScan]_vars

\* one chart is drawn
DrawRadarChart(data, size, maxValue) ==
    /\ seen' = Read("RadarChart", RadarChart(data, size, maxValue))
    /\ UNCHANGED <<stateCards, cards, isLoading, storage, calls, issued,
                   settled, lastSet, rendered, now>>

NextChart ==
    \E data \in ChartData, size \in {250, 320}, maxValue \in {5, 10, 20} :
        DrawRadarChart(data, size, maxValue)

\* the charts drawn on a first start of the application
SpecChart == InitScan /\ [][NextChart]_vars

TypeOK ==
    /\ issued >= 1
    /\ Len(calls) <= issued
    /\ now \in 1..MaxClock
    /\ isLoading \in BOOLEAN
    /\ storage.kind \in {"absent", "json", "garbage"}
    /\ rendered <= issued /\ lastSet.n <= issued

\* ------------------------------------------------------------ properties
\* the call made by the step that has just been taken
NewCall == calls'[Len(calls')]

\* the entries of list at the positions in keep, in list order
Kept(list, keep) ==
    [m \in 1..Cardinality(keep) |->
        list[CHOOSE k \in keep : Cardinality({j \in keep : j <= k}) = m]]

\* a and b hold the same value in field f (a missing field reads undefined)
SameField(a, b, f) ==
    /\ (f \in Defined(a)) = (f \in Defined(b))
    /\ f \in Defined(a) => a[f] = b[f]

\* the call that set the list is an addCard that still awaits its write,
\* and no render has happened since it was made
BackToBack ==
    /\ lastSet.op = "addCard"
    /\ \E i \in 1..Len(calls) : calls[i].n = lastSet.n
    /\ lastSet.from = rendered

\* C1: an addCard made while the previous addCard still awaits its write,
\* and before a new render, starts from the same `cards` as that call: the
\* list it sets holds its own card in place of the earlier one (one entry
\* more than the snapshot, not two), and no completion of a write puts the
\* earlier card back.
LostUpdate ==
    /\ [][\A cardData \in CardInputs : \A t \in AddClock(cardData) :
            (BackToBack /\ AddCard(cardData, t)) =>
                /\ NewCall.from = lastSet.from
                /\ Tail(stateCards') = Tail(stateCards)
                /\ Tail(stateCards') = cards
                /\ Len(stateCards') = Len(stateCards)]_vars
    /\ [][\A i \in 1..Len(calls) : WriteOk(i) => stateCards' = stateCards]_vars

\* two addCard calls made from the same render have both resolved and the
\* card of the one that resolved last is not in the list, which the other set
LostUpdateReached ==
    /\ calls = <<>> /\ rendered = lastSet.n
    /\ settled.op = "addCard" /\ settled.st = "ok"
    /\ lastSet.op = "addCard" /\ lastSet.n > settled.n
    /\ lastSet.from = settled.from
    /\ Len(stateCards) = 3
    /\ Get(settled.ret[1], "id") \notin IdsOf(stateCards)

AddPrepends ==
    [][\A cardData \in CardInputs : \A t \in AddClock(cardData) :
          AddCard(cardData, t) =>
              /\ stateCards'[1] = NewCall.ret[1]
              /\ \A f \in DOMAIN cardData : stateCards'[1][f] = cardData[f]
              /\ Tail(stateCards') = cards
              /\ Len(stateCards') = Len(cards) + 1
              /\ cards = stateCards => Tail(stateCards') = stateCards]_vars

\* addCard was called on a vault of two entries and has resolved
AddPrependsReached ==
    /\ settled.op = "addCard" /\ settled.st = "ok" /\ lastSet.n = settled.n
    /\ Len(stateCards) = 3
    /\ stateCards[1] = settled.ret[1]
    /\ Tail(stateCards) = cards

\* C4: no two entries of the in-memory list have the same id.
UniqueIds ==
    \A k, m \in 1..Len(stateCards) :
        k # m => Get(stateCards[k], "id") # Get(stateCards[m], "id")

\* C5: deleteCard(id) sets the list it was called on without the entries
\* whose id is id, the others in their order; when no entry has that id the
\* list is the same and the call does not throw.
DeleteRemoves ==
    [][\A cardId \in IdInputs :
          DeleteCard(cardId) =>
              LET keep == {k \in 1..Len(cards) : Get(cards[k], "id") # cardId}
              IN  /\ stateCards' = Kept(cards, keep)
                  /\ cardId \notin IdsOf(cards) => stateCards' = cards
                  /\ NewCall.op = "deleteCard" /\ settled' = settled
                  /\ cards = stateCards =>
                        stateCards' = Kept(stateCards, keep)]_vars

\* a deleteCard of an id that no entry of a vault of two has, has resolved
DeleteRemovesReached ==
    /\ settled.op = "deleteCard" /\ settled.st = "ok" /\ lastSet.n = settled.n
    /\ Len(stateCards) = 2
    /\ cards = stateCards
    /\ "a" \in IdsOf(stateCards)

\* C6: importVault(exportVault(), {merge: false}) sets a list of the length
\* and order of the exported one, each entry equal to the exported entry in
\* every field but photoUri, which is null.
RoundTrip ==
    [][ImportExported =>
          /\ NewCall.op = "importVault" /\ settled' = settled
          /\ Len(stateCards') = Len(cards)
          /\ \A k \in 1..Len(cards) :
                /\ Get(stateCards'[k], "photoUri") = Null
                /\ \A f \in ((DOMAIN cards[k]) \cup (DOMAIN stateCards'[k]))
                            \ {"photoUri"} :
                      SameField(stateCards'[k], cards[k], f)]_vars

\* the stored vault, whose entries have photos, went through the round trip
RoundTripReached ==
    /\ settled.op = "importVault" /\ settled.st = "ok" /\ lastSet.n = settled.n
    /\ Len(stateCards) = 2
    /\ "b" \in IdsOf(stateCards)
    /\ \A k \in 1..Len(stateCards) : Get(stateCards[k], "photoUri") = Null

\* the positions of imported whose id no entry of list has
NewIn(list, imported) ==
    {k \in 1..Len(imported) : Get(imported[k], "id") \notin IdsOf(list)}

\* C7: a merge import adds one card for each imported entry whose id the
\* vault does not hold and none for an entry whose id it holds, so N new,
\* pairwise distinct ids make the number of cards grow by N.
MergeCounts ==
    [][\A jsonData \in ImportInputs :
          (ImportVault(jsonData, TRUE) /\ jsonData.cardsKind = "array") =>
              /\ Len(stateCards') =
                    Len(cards) + Cardinality(NewIn(cards, jsonData.cards))
              /\ NewCall.ret[1].total = Len(stateCards')]_vars

\* a merge import of three entries, one of them with an id the vault held,
\* made a vault of two entries one of four
MergeCountsReached ==
    /\ settled.op = "importVault" /\ lastSet.n = settled.n
    /\ settled.ret = <<[imported |-> 3, total |-> 4]>>
    /\ Len(stateCards) = 4

\* C8: a merge import keeps the list it was called on, unchanged and in
\* order, at the front and appends the imported entries whose id was not in
\* it, in import order.
MergeAppends ==
    [][\A jsonData \in ImportInputs :
          (ImportVault(jsonData, TRUE) /\ jsonData.cardsKind = "array") =>
              /\ Len(stateCards') >= Len(cards)
              /\ SubSeq(stateCards', 1, Len(cards)) = cards
              /\ SubSeq(stateCards', Len(cards) + 1, Len(stateCards')) =
                    Kept(jsonData.cards, NewIn(cards, jsonData.cards))]_vars

\* a merge import into a vault of two appended the entries c and d in that
\* order behind b and a
MergeAppendsReached ==
    /\ lastSet.op = "importVault"
    /\ Len(stateCards) = 4
    /\ [k \in 1..4 |-> Get(stateCards[k], "id")] = <<"b", "a", "c", "d">>
    /\ Get(stateCards[1], "photoUri") # Null

\* C9: importVault of a text that does not parse, or whose cards is absent
\* or not an array, throws before it sets or writes anything: the in-memory
\* list and the storage are the same and no request is made.
ImportRejects ==
    [][\A jsonData \in ImportInputs : \A merge \in MergeInputs(jsonData) :
          (/\ ImportVault(jsonData, merge)
           /\ (jsonData.kind # "json" \/ jsonData.cardsKind # "array")) =>
              /\ settled'.op = "importVault" /\ settled'.st = "err"
              /\ settled'.n = issued'
              /\ stateCards' = stateCards
              /\ storage' = storage
              /\ calls' = calls]_vars

\* an import was rejected on a vault that holds entries
ImportRejectsReached ==
    /\ settled.op = "importVault" /\ settled.io = "none" /\ settled.st = "err"
    /\ calls = <<>>
    /\ Len(stateCards) = 2
    /\ storage = StorageJson(stateCards)

\* C10: a call whose setItem or removeItem rejects ends rejected, and a call
\* that wrote or erased resolves only in the step in which the storage takes
\* its list.
SaveFailurePropagates ==
    [][\A i \in 1..Len(calls) :
          (calls[i].io \in {"setItem", "removeItem"} /\ settled'.n = calls[i].n) =>
              /\ (WriteFail(i) \/ RemoveFail(i)) =>
                    settled'.st = "err" /\ storage' = storage
              /\ settled'.st = "ok" =>
                    storage' = IF calls[i].io = "removeItem" THEN StorageAbsent
                               ELSE StorageJson(calls[i].newCards)
              /\ settled'.st = "err" => storage' = storage]_vars

\* the write of a call failed: the call is rejected, the list it set is in
\* memory and not in the storage
SaveFailurePropagatesReached ==
    /\ settled.io \in {"setItem", "removeItem"} /\ settled.st = "err"
    /\ lastSet.n = settled.n
    /\ Len(stateCards) = 3
    /\ storage # StorageJson(stateCards)

\* C11: a load, at start-up or by refreshCards, that finds the key absent,
\* reads a text that does not parse, or whose read fails, gives the empty list
\* to setCards, ends loading and resolves: the caller sees no error.
LoadFailureEmpties ==
    [][\A i \in 1..Len(calls) :
          ((LoadOk(i) /\ storage.kind # "json") \/ LoadFail(i)) =>
              /\ stateCards' = <<>>
              /\ isLoading' = FALSE
              /\ settled'.n = calls[i].n /\ settled'.st = "ok"
              /\ lastSet'.n = calls[i].n
              /\ storage' = storage]_vars

\* a refreshCards whose read failed emptied a vault that showed two entries,
\* which are still in the storage
LoadFailureEmptiesReached ==
    /\ settled.op = "refreshCards" /\ settled.st = "ok"
    /\ lastSet.n = settled.n
    /\ stateCards = <<>>
    /\ Len(cards) = 2
    /\ storage = StorageJson(cards)

\* C12: updateCard(id, patch) with an id that no entry of the list it is
\* called on has sets that same list, entry for entry, so no entry gets an
\* updatedAt; it does not throw, and it hands undefined to its caller when
\* its write resolves.
UpdateUnknownNoop ==
    /\ [][\A cardId \in IdInputs, updates \in UpdateInputs :
            \A t \in UpdateClock(cardId) :
               (UpdateCard(cardId, updates, t) /\ cardId \notin IdsOf(cards)) =>
                  /\ stateCards' = cards
                  /\ \A k \in 1..Len(cards) :
                        Get(stateCards'[k], "updatedAt") = Get(cards[k], "updatedAt")
                  /\ NewCall.op = "updateCard" /\ NewCall.ret = <<>>
                  /\ NewCall.newCards = cards
                  /\ settled' = settled
                  /\ cards = stateCards => stateCards' = stateCards]_vars
    /\ [][\A i \in 1..Len(calls) :
            (WriteOk(i) /\ calls[i].op = "updateCard") =>
                /\ settled'.st = "ok" /\ settled'.ret = calls[i].ret
                /\ stateCards' = stateCards]_vars

\* an updateCard of an id that no entry has resolved with undefined; the two
\* entries of the vault are as they were stored, none with an updatedAt
UpdateUnknownNoopReached ==
    /\ settled.op = "updateCard" /\ settled.st = "ok" /\ settled.ret = <<>>
    /\ lastSet.n = settled.n
    /\ stateCards = JsonList(StoredCards)
    /\ storage = StorageJson(stateCards)
    /\ \A k \in 1..Len(stateCards) : Get(stateCards[k], "updatedAt") = Undefined

\* the first position of list whose entry has the id
FirstWith(list, id) ==
    CHOOSE k \in 1..Len(list) :
        /\ Get(list[k], "id") = id
        /\ \A j \in 1..(k - 1) : Get(list[j], "id") # id

\* C13: updateCard(id, patch) on an id that an entry of the list it is called
\* on has sets a list of the same length in which the entry with that id
\* stays at its position, holds every field of patch and an updatedAt of the
\* call's clock reading and keeps its other fields, and every entry with
\* another id is unchanged; it returns that entry (the first one when several
\* entries have the id).
UpdateExisting ==
    [][\A cardId \in IdInputs, updates \in UpdateInputs :
          \A t \in UpdateClock(cardId) :
             (UpdateCard(cardId, updates, t) /\ cardId \in IdsOf(cards)) =>
                /\ Len(stateCards') = Len(cards)
                /\ \A k \in 1..Len(cards) :
                      IF Get(cards[k], "id") = cardId
                      THEN /\ DOMAIN stateCards'[k] =
                                 (DOMAIN cards[k]) \cup (DOMAIN updates)
                                     \cup {"updatedAt"}
                           /\ \A f \in DOMAIN updates :
                                 stateCards'[k][f] = updates[f]
                           /\ stateCards'[k].updatedAt = ToISOString(t)
                           /\ \A f \in (DOMAIN cards[k]) \
                                       ((DOMAIN updates) \cup {"updatedAt"}) :
                                 stateCards'[k][f] = cards[k][f]
                      ELSE stateCards'[k] = cards[k]
                /\ NewCall.ret = <<stateCards'[FirstWith(cards, cardId)]>>
                /\ settled' = settled]_vars

\* an updateCard of the second of two entries resolved with the patched
\* entry, which is still the second; the first is as it was stored
UpdateExistingReached ==
    /\ settled.op = "updateCard" /\ settled.st = "ok" /\ Len(settled.ret) = 1
    /\ lastSet.n = settled.n
    /\ Len(stateCards) = 2
    /\ stateCards[2] = settled.ret[1]
    /\ Get(stateCards[2], "id") = "a"
    /\ Get(stateCards[2], "notes") = "mint"
    /\ Get(stateCards[2], "overallGrade") = "9.5"
    /\ Get(stateCards[2], "name") = "Pikachu"
    /\ Get(stateCards[2], "updatedAt") \in {ToISOString(n) : n \in 1..MaxClock}
    /\ stateCards[1] = JsonList(StoredCards)[1]

\* C14: the entry addCard stores holds the default in every optional field
\* for which the caller gave no value (the property is missing or its value
\* is undefined), and a generated id when the caller gave none.
AddFillsDefaults ==
    [][\A cardData \in CardInputs : \A t \in AddClock(cardData) :
          AddCard(cardData, t) =>
              \A f \in DefaultedFields \ Defined(cardData) :
                  Get(stateCards'[1], f) = DefaultOf(f, t)]_vars

\* C15: a call of getCollectionStats leaves the list, its order and the
\* storage as they are and makes no request, and a call that follows a call
\* with no mutation in between gives the same statistics.
StatsIdempotent ==
    [][GetCollectionStats =>
          /\ cards' = cards
          /\ stateCards' = stateCards
          /\ storage' = storage
          /\ calls' = calls
          /\ seen.op = "getCollectionStats" => seen'.value = seen.value]_vars

\* getCollectionStats was called twice on a vault of six entries or more that
\* are not in the order of their values
StatsIdempotentReached ==
    /\ seen.op = "getCollectionStats" /\ seen.k = 2
    /\ Len(cards) >= 6
    /\ cards # SortByValue(cards, Len(cards))
    /\ Len(seen.value.topCards) = 5
    /\ stateCards = cards
    /\ storage = StorageJson(cards)

\* the marketValue of card parses as a currency amount
ParsesAsMoney(card) ==
    ~ParseFloat(ReplaceFirst(ReplaceFirst(
         Chars(Get(card, "marketValue")), "$"), ",")).nan

\* C16: in the statistics, the entries whose marketValue does not parse as a
\* currency amount add nothing to totalValue and are not in topCards, and
\* they are counted in totalCards and in setCounts.
StatsSkipUnparsed ==
    (seen.op = "getCollectionStats" /\ ~seen.value.threw) =>
        LET stats == seen.value
            parsed == {k \in 1..Len(cards) : ParsesAsMoney(cards[k])}
        IN  /\ stats.totalCards = Len(cards)
            /\ stats.totalValue =
                  getTotalValue(Kept(cards, parsed))
            /\ \A m \in 1..Len(stats.topCards) : ParsesAsMoney(stats.topCards[m])
            /\ \A k \in 1..Len(cards) :
                  /\ Get(cards[k], "set") \in DOMAIN stats.setCounts
                  /\ stats.setCounts[Get(cards[k], "set")] =
                        Cardinality({j \in 1..Len(cards) :
                            Get(cards[j], "set") = Get(cards[k], "set")})

\* the position in cards of the m-th entry of topCards
PositionOf(top, m) ==
    CHOOSE k \in 1..Len(cards) : cards[k] = top[m]

ExportNullsPhotos ==
    [][\A t \in Clock : ExportVault(t) =>
          LET package == seen'.value
          IN  /\ package.totalCards = Len(cards)
              /\ Len(package.cards) = Len(cards)
              /\ \A k \in 1..Len(cards) :
                    /\ Get(package.cards[k], "photoUri") = Null
                    /\ \A f \in ((DOMAIN cards[k]) \cup (DOMAIN package.cards[k]))
                                \ {"photoUri"} :
                          SameField(package.cards[k], cards[k], f)
              /\ cards' = cards /\ stateCards' = stateCards
              /\ storage' = storage /\ calls' = calls
              /\ settled' = settled]_vars

\* exportVault gave the package of a vault of two entries with photos: the
\* photos are in the list and in the storage still
ExportNullsPhotosReached ==
    /\ seen.op = "exportVault"
    /\ seen.value.totalCards = 2
    /\ Len(cards) = 2 /\ stateCards = cards /\ storage = StorageJson(cards)
    /\ \A k \in 1..2 :
          /\ Get(seen.value.cards[k], "photoUri") = Null
          /\ Get(seen.value.cards[k], "id") = Get(cards[k], "id")
          /\ Get(cards[k], "photoUri") \notin {Null, Undefined}
          /\ Get(storage.cards[k], "photoUri") = Get(cards[k], "photoUri")

\* C19: when the removeItem of clearVault resolves, the in-memory list is
\* empty and the storage holds no entries, so a load from it gives the empty
\* list.
ClearEmpties ==
    [][\A i \in 1..Len(calls) :
          RemoveOk(i) =>
              /\ settled'.op = "clearVault" /\ settled'.st = "ok"
              /\ stateCards' = <<>>
              /\ storage' = StorageAbsent
              /\ LoadedCards(storage') = <<>>]_vars

\* C20: for every name, the empty and the missing one too, and all draws,
\* each axis value that generateMockGrading gives is at least 5 and at most
\* 10 (50 and 100 tenths).
GradingInRange ==
    (seen.op = "generateMockGrading" /\ ~seen.value.threw) =>
        \A a \in Axes : seen.value.axes[a] >= 50 /\ seen.value.axes[a] <= 100

\* a grading whose axes got the lowest and the highest draw: with the lowest
\* base grade 7 the one is 6.3, with the highest, 9, the other is 9.7
GradingInRangeReached ==
    /\ seen.op = "generateMockGrading" /\ ~seen.value.threw
    /\ \E a, b \in Axes : seen.value.axes[a] + 14 = seen.value.axes[b]
    /\ \E a \in Axes : seen.value.axes[a] \in {63, 97}

\* C21: a scan whose request fails for a network failure, a timeout or a
\* refused connection gives a successful mock result instead of an error.
ScanFallsBack ==
    (seen.op = "scanCard"
        /\ seen.value.outcome.cause \in {"network", "timeout", "refused"}) =>
        (seen.value.result.success /\ seen.value.result.source = "mock")

\* the character code the claim names for each name: of the first character
\* of the lowercased name, of 'u' of the default 'Unknown' for a missing
\* name, and 80 ('P') for a name without a first character
LowercasedCode(cardName) ==
    CASE cardName = "Charizard" -> 99
      [] cardName = "Pikachu"   -> 112
      [] cardName = "4ever"     -> 52
      [] cardName = ""          -> 80
      [] cardName = Undefined   -> 117

\* the character code of the first character of the name exactly as given,
\* and of 'P' for a name without a first character
GivenCode(cardName) ==
    CASE cardName = "Charizard" -> 67
      [] cardName = "Pikachu"   -> 80
      [] cardName = "4ever"     -> 52
      [] cardName = ""          -> 80
      [] cardName = Undefined   -> 80

\* C22 (amended): the base grade of the mock grading is 7 + (c mod 3), where c
\* is the character code of the first character of the lowercased name (of
\* the default name 'Unknown' when the name is missing, and 80 when the name
\* is empty), so it is always one of 7, 8, 9.
BaseGradeLowercased ==
    (seen.op = "generateMockGrading" /\ ~seen.value.threw) =>
        /\ seen.value.baseGrade = 7 + (LowercasedCode(seen.value.cardName) % 3)
        /\ seen.value.baseGrade \in {7, 8, 9}

\* a name starting with a capital letter has been graded from its lowercase
\* letter: 'c' gives 7 where 'C' would give 8
BaseGradeLowercasedReached ==
    /\ seen.op = "generateMockGrading" /\ ~seen.value.threw
    /\ seen.value.cardName = "Charizard"
    /\ seen.value.baseGrade = 7

\* C22 (as stated): the base grade is 7 + (c mod 3), where c is the character
\* code of the first character of the name exactly as given, or of 'P' when
\* the name has no first character.
BaseGradeAsGiven ==
    (seen.op = "generateMockGrading" /\ ~seen.value.threw) =>
        /\ seen.value.baseGrade = 7 + (GivenCode(seen.value.cardName) % 3)
        /\ seen.value.baseGrade \in {7, 8, 9}

\* C23: no clamping is applied to the data polygon: for any maxValue, an axis
\* value exceeding maxValue gives a data vertex farther from the centre than
\* the vertex of the outermost grid ring on the same axis.
BeyondOuterRing ==
    seen.op = "RadarChart" =>
        \A i \in 1..seen.value.numberOfSides :
            seen.value.values[i] > 10 * seen.value.maxValue =>
                seen.value.dataPolygon[i] > seen.value.outerRing

\* C24: the label of an axis pointing into the right half-plane is
\* start-aligned, of one pointing into the left half-plane end-aligned, and
\* the label of the top axis (axis 0) and of the bottom axis (axis N / 2, N
\* even) is centered.
LabelAlignment ==
    seen.op = "RadarChart" =>
        \A i \in 1..seen.value.numberOfSides :
            LET n == seen.value.numberOfSides
                a == seen.value.angles[i]
                anchor == seen.value.textAnchors[i]
            IN  /\ (a > -n /\ a < n) => anchor = "start"
                /\ (a > n /\ a < 3 * n) => anchor = "end"
                /\ i = 1 => anchor = "middle"
                /\ 2 * (i - 1) = n => anchor = "middle"

\* an entry satisfies every predicate that the filters supply: the grade
\* bounds on the parsed overallGrade, which a grade that is not a number does
\* not satisfy; the set as a substring, letter case aside; one tag shared
Satisfies(card, filters) ==
    /\ Supplied(filters, "minGrade") => AtLeast(card, filters.minGrade)
    /\ Supplied(filters, "maxGrade") => AtMost(card, filters.maxGrade)
    /\ Supplied(filters, "set") =>
          (IsString(Get(card, "set")) /\ InSet(card, filters))
    /\ Supplied(filters, "tags") => SharesTag(card, filters)

\* C25: getFilteredCards(filters) returns exactly the entries that satisfy
\* every predicate supplied in filters, in vault order: all entries when none
\* is supplied, and no entry whose overallGrade is not numeric when a grade
\* bound is supplied.
FilterExact ==
    seen.op = "getFilteredCards" =>
        /\ ~seen.value.result.threw
        /\ seen.value.result.value =
               SelectSeq(cards, LAMBDA card : Satisfies(card, seen.value.filters))

\* C26: whenever no vault operation is in flight, the list in memory equals
\* the persisted list, an absent key counting as the empty list, also after
\* failed writes and after writes that completed out of order.  It is stated
\* for the states in which a mutating operation was the last to finish.
MemoryMatchesStorage ==
    (calls = <<>> /\ settled.io \in {"setItem", "removeItem"}) =>
        JsonList(stateCards) = LoadedCards(storage)

\* C28: entries stored when the provider starts are not lost by an addCard
\* called while the initial load is in flight: once the load, which finished
\* after the addCard was called and so gave the list the entries that were
\* stored, and the addCard have both finished, the list in memory and the
\* persisted list each hold those entries and the added card.
LoadRaceKeepsStored ==
    (/\ calls = <<>>
     /\ settled.op = "addCard" /\ settled.st = "ok" /\ settled.from = 0
     /\ lastSet.op = "loadCards") =>
        \A id \in IdsOf(stateCards) \cup IdsOf(settled.ret) :
            /\ id \in IdsOf(stateCards)
            /\ id \in IdsOf(LoadedCards(storage))

\* C29: importVault returns {imported, total}: total is the number of
\* entries in the vault after the import and imported the number of entries
\* the import added, so a merge gives total = previous count + imported.
ImportCountsAdded ==
    [][\A jsonData \in ImportInputs, merge \in BOOLEAN :
          (ImportVault(jsonData, merge) /\ ValidImport(jsonData)) =>
              /\ NewCall.ret[1].total = Len(stateCards')
              /\ merge => NewCall.ret[1].total =
                              Len(cards) + NewCall.ret[1].imported
              /\ ~merge => NewCall.ret[1].total = NewCall.ret[1].imported]_vars

\* C27: getCardById, searchCards, getFilteredCards, getTotalValue,
\* getCollectionStats and exportVault never change the vault: after each of
\* them the list in memory (entries, fields, order) and the persisted storage
\* are what they were before, and no operation on the storage was started.
\* Every step of the screens that only read is one of these six.
ReadsChangeNothing ==
    [][/\ stateCards' = stateCards
       /\ cards' = cards
       /\ storage' = storage
       /\ calls' = calls]_vars

\* a vault of two entries with photos was exported, and is in memory and in
\* the storage as it was loaded
ReadsChangeNothingReached ==
    /\ seen.op = "exportVault"
    /\ Len(cards) = 2 /\ stateCards = cards /\ storage = StorageJson(cards)
    /\ \A k \in 1..Len(cards) : cards[k].photoUri = "file:///p.jpg"
    /\ \A k \in 1..Len(seen.value.cards) : seen.value.cards[k].photoUri = Null

\* a loadCards awaits its getItem
LoadInFlight == \E i \in 1..Len(calls) : calls[i].io = "getItem"

\* C30: every load of the vault, the initial one and each refreshCards, sets
\* isLoading to true when it starts and false again in the end, whether the
\* read succeeds, finds no key or fails; isLoading is never true when no
\* load is in flight.
LoadingEnds ==
    /\ [][(Len(calls') > Len(calls) /\ NewCall.io = "getItem") => isLoading']_vars
    /\ LoadInFlight ~> ~isLoading
    /\ [](~LoadInFlight => ~isLoading)

\* a refreshCards on a storage that cannot be parsed has finished and left
\* isLoading false
LoadingEndsReached ==
    /\ settled.op = "refreshCards" /\ ~LoadInFlight /\ ~isLoading
    /\ storage = StorageGarbage

====
